---- MODULE Spec2Model ----
(***************************************************************************)
(* Model of the "Go work tools" extension (src/src/extension.ts):          *)
(*   - InterfaceCodeLensProvider.provideCodeLenses, the line scanner that  *)
(*     finds interface blocks and emits one code lens per method;          *)
(*   - the goto-implementations.gotoImplementation command handler.        *)
(* Text is modelled as sequences of one-character strings, so the regular  *)
(* expressions, trim() and indexOf() are computed character by character.  *)
(***************************************************************************)
EXTENDS Integers, Sequences, FiniteSets, TLC

\* ------------------------------------------------------------------ bounds
MaxLines == 4

\* ------------------------------------------------------- character classes
\* \s of the regular expressions and the characters String.trim() removes
WhiteSpace == {" ", "\t", "\n"}

\* \w of the regular expressions
WordChars ==
  {"a", "b", "c", "d", "e", "f", "g", "h", "i", "j", "k", "l", "m",
   "n", "o", "p", "q", "r", "s", "t", "u", "v", "w", "x", "y", "z",
   "A", "B", "C", "D", "E", "F", "G", "H", "I", "J", "K", "L", "M",
   "N", "O", "P", "Q", "R", "S", "T", "U", "V", "W", "X", "Y", "Z",
   "0", "1", "2", "3", "4", "5", "6", "7", "8", "9", "_"}

KwType == <<"t", "y", "p", "e">>
KwInterface == <<"i", "n", "t", "e", "r", "f", "a", "c", "e">>
CommentMarker == <<"/", "/">>

\* ------------------------------------------------------------ the documents
\* type Fetcher interface {
LineDecl == <<"t", "y", "p", "e", " ", "F", "e", "t", "c", "h", "e", "r", " ", "i", "n", "t", "e", "r", "f", "a", "c", "e", " ", "{">>
\* <tab>Fetch(id string) (Item, error)
LineFetch == <<"\t", "F", "e", "t", "c", "h", "(", "i", "d", " ", "s", "t", "r", "i", "n", "g", ")", " ", "(", "I", "t", "e", "m", ",", " ", "e", "r", "r", "o", "r", ")">>
\* <2 spaces>Put(k string)
LinePut == <<" ", " ", "P", "u", "t", "(", "k", " ", "s", "t", "r", "i", "n", "g", ")">>
\* }
LineClose == <<"}">>
\* the empty line
LineBlank == <<>>
\* <tab>// Put(k)
LineComment == <<"\t", "/", "/", " ", "P", "u", "t", "(", "k", ")">>
\* <tab>Get(            first line of a wrapped signature
LineWrapHead == <<"\t", "G", "e", "t", "(">>
\* <tab><tab>id int) error      its continuation
LineWrapTail == <<"\t", "\t", "i", "d", " ", "i", "n", "t", ")", " ", "e", "r", "r", "o", "r">>

\* type E interface {}      an empty interface declared on one line
LineDeclEmpty == <<"t", "y", "p", "e", " ", "E", " ", "i", "n", "t", "e", "r", "f", "a", "c", "e", " ", "{", "}">>
\* }}                       more closing braces than a block is deep
LineCloseTwo == <<"}", "}">>
\* <tab>Del(k) }            a method signature followed by the closing brace
LineDelClose == <<"\t", "D", "e", "l", "(", "k", ")", " ", "}">>

NameFetch == <<"F", "e", "t", "c", "h">>
NamePut == <<"P", "u", "t">>
NameGet == <<"G", "e", "t">>

Lines ==
  {LineDecl, LineFetch, LinePut, LineClose, LineBlank, LineComment,
   LineWrapHead, LineWrapTail}

RECURSIVE SeqsUpTo(_, _)
SeqsUpTo(S, n) ==
  IF n = 0 THEN {<<>>}
  ELSE LET shorter == SeqsUpTo(S, n - 1)
       IN shorter \cup {Append(s, x) : s \in {t \in shorter : Len(t) = n - 1}, x \in S}

Documents == SeqsUpTo(Lines, MaxLines)

\* the documents that exercise the brace counting and the declaration pattern
BraceLines ==
  {LineDecl, LineFetch, LineClose, LineBlank, LineComment, LineWrapHead,
   LineDeclEmpty, LineCloseTwo, LineDelClose}

BraceDocuments == SeqsUpTo(BraceLines, MaxLines)

\* ------------------------------------------------------------ text helpers
\* first position >= p of s whose character is outside class (Len(s)+1 if none)
RECURSIVE SkipClass(_, _, _)
SkipClass(s, p, class) ==
  IF p <= Len(s) /\ s[p] \in class THEN SkipClass(s, p + 1, class) ELSE p

\* last position <= p of s whose character is not white space (0 if none)
RECURSIVE TrimEnd(_, _)
TrimEnd(s, p) ==
  IF p >= 1 /\ s[p] \in WhiteSpace THEN TrimEnd(s, p - 1) ELSE p

\* String.prototype.trim
Trim(s) ==
  LET a == SkipClass(s, 1, WhiteSpace)
      b == TrimEnd(s, Len(s))
  IN IF a > b THEN <<>> ELSE SubSeq(s, a, b)

\* the literal lit occurs in s at position p (1-based)
LitAt(s, p, lit) ==
  /\ p + Len(lit) - 1 <= Len(s)
  /\ SubSeq(s, p, p + Len(lit) - 1) = lit

\* String.prototype.startsWith
StartsWith(s, lit) == LitAt(s, 1, lit)

RECURSIVE IndexFrom(_, _, _)
IndexFrom(s, needle, p) ==
  IF p + Len(needle) - 1 > Len(s) THEN -1
  ELSE IF LitAt(s, p, needle) THEN p - 1
  ELSE IndexFrom(s, needle, p + 1)

\* String.prototype.indexOf: 0-based column of the first occurrence, or -1
IndexOf(s, needle) == IndexFrom(s, needle, 1)

\* (s.match(/c/g) || []).length
CountChar(s, c) == Cardinality({k \in 1..Len(s) : s[k] = c})

\* first position >= p of s holding character c (Len(s)+1 if none)
RECURSIVE FindChar(_, _, _)
FindChar(s, p, c) ==
  IF p <= Len(s) /\ s[p] # c THEN FindChar(s, p + 1, c) ELSE p

\* ------------------------------------------------------ regular expressions
\* /^type\s+(\w+)\s+interface\s*{/ applied by String.match: the capture, if any
interfaceStartRegex(t) ==
  LET p1 == Len(KwType) + 1
      p2 == SkipClass(t, p1, WhiteSpace)
      p3 == SkipClass(t, p2, WordChars)
      p4 == SkipClass(t, p3, WhiteSpace)
      p5 == p4 + Len(KwInterface)
      p6 == SkipClass(t, p5, WhiteSpace)
      ok == /\ LitAt(t, 1, KwType)
            /\ p2 > p1
            /\ p3 > p2
            /\ p4 > p3
            /\ LitAt(t, p4, KwInterface)
            /\ LitAt(t, p6, <<"{">>)
  IN [matched |-> ok, name |-> IF ok THEN SubSeq(t, p2, p3 - 1) ELSE <<>>]

\* the tail \s*(\([^)]*\)?|[^\n]*)?$ of interfaceMethodRegex, from position q
MethodTail(m, q) ==
  \E k \in q..SkipClass(m, q, WhiteSpace) :
     \/ /\ k <= Len(m)
        /\ m[k] = "("
        /\ FindChar(m, k + 1, ")") >= Len(m)
     \/ \A j \in k..Len(m) : m[j] # "\n"

\* /^\s*(\w+)\s*\([^)]*\)\s*(\([^)]*\)?|[^\n]*)?$/ applied by RegExp.test
interfaceMethodRegex(m) ==
  LET p1 == SkipClass(m, 1, WhiteSpace)
      p2 == SkipClass(m, p1, WordChars)
      p3 == SkipClass(m, p2, WhiteSpace)
      p4 == FindChar(m, p3 + 1, ")")
  IN /\ p2 > p1
     /\ LitAt(m, p3, <<"(">>)
     /\ p4 <= Len(m)
     /\ MethodTail(m, p4 + 1)

\* /^\s*(\w+)\s*\(/ applied by String.match: the capture, if any
methodMatch(m) ==
  LET p1 == SkipClass(m, 1, WhiteSpace)
      p2 == SkipClass(m, p1, WordChars)
      p3 == SkipClass(m, p2, WhiteSpace)
      ok == p2 > p1 /\ LitAt(m, p3, <<"(">>)
  IN [matched |-> ok, name |-> IF ok THEN SubSeq(m, p1, p2 - 1) ELSE <<>>]

\* ------------------------------------------------------------------- state
VARIABLES
  document,       \* the lines of the scanned TextDocument
  cancelled,      \* token.isCancellationRequested
  i,              \* the line cursor of the for loop (0-based)
  inInterface,
  interfaceName,
  bracketCount,
  codeLenses,     \* the anchors pushed so far
  scanPc,         \* "loop", "returned" or "threw"
  \* one entry per invocation of goto-implementations.gotoImplementation
  cmdPc,          \* the await the handler is suspended at, "idle" or "done"
  cmdArgs,        \* the arguments (range, methodName) of the invocation
  implementations,\* the promise of the implementation query and its value
  opened,         \* per location: the state of its openTextDocument promise
  selected,       \* the promise of showQuickPick and its value
  infoMessages,   \* texts passed to showInformationMessage
  errorMessages,  \* texts passed to showErrorMessage
  quickPicks,     \* pickers presented by showQuickPick
  shownDocuments, \* locations passed to showTextDocument
  navigation,     \* the promise of showTextDocument
  handlerResult   \* "pending", "returned" or "rejected"

scanVars ==
  <<document, cancelled, i, inInterface, interfaceName, bracketCount,
    codeLenses, scanPc>>

cmdVars ==
  <<cmdPc, cmdArgs, implementations, opened, selected, infoMessages,
    errorMessages, quickPicks, shownDocuments, navigation, handlerResult>>

vars == <<scanVars, cmdVars>>

lineCount == Len(document)

\* document.lineAt(k).text for the 0-based line k
lineAt(k) == document[k + 1]

lineText == lineAt(i)
trimmedText == Trim(lineText)

\* bracketCount after lines 34-35 have counted the braces of the current line
countedBrackets ==
  bracketCount + CountChar(lineText, "{") - CountChar(lineText, "}")

\* the while loop of lines 48-55: the cursor and the text it ends with
RECURSIVE collectMethod(_, _)
collectMethod(k, methodText) ==
  IF ~interfaceMethodRegex(methodText) /\ k < lineCount - 1
  THEN collectMethod(k + 1, methodText \o <<" ">> \o Trim(lineAt(k + 1)))
  ELSE [i |-> k, methodText |-> methodText]

collected == collectMethod(i, trimmedText)

methodName == methodMatch(collected.methodText).name
\* the column looked up in the trimmed text instead of the line
methodStartInTrimmed == IndexOf(trimmedText, methodName)

methodStart == IndexOf(lineText, methodName)

\* new vscode.Position(line, character) throws on a negative argument
PositionThrows(line, character) == line < 0 \/ character < 0

\* the range of the code lens built at lines 62-66, with the name it carries
methodRange ==
  [line |-> collected.i,
   start |-> methodStart,
   end |-> methodStart + Len(methodName),
   name |-> methodName]

\* ------------------------------------------------------------------ scanner
ScanInit ==
  /\ document \in Documents
  /\ cancelled = FALSE
  /\ i = 0
  /\ inInterface = FALSE
  /\ interfaceName = <<>>
  /\ bracketCount = 0
  /\ codeLenses = <<>>
  /\ scanPc = "loop"

InLoop == scanPc = "loop" /\ i < lineCount

\* in a method-candidate line of an open block (lines 47-74 apply)
AtCandidate ==
  /\ InLoop
  /\ ~interfaceStartRegex(trimmedText).matched
  /\ inInterface
  /\ countedBrackets # 0
  /\ ~StartsWith(trimmedText, CommentMarker)

\* lines 25-31: the line declares an interface
ScanInterfaceStart ==
  /\ InLoop
  /\ interfaceStartRegex(trimmedText).matched
  /\ inInterface' = TRUE
  /\ bracketCount' = 1
  /\ interfaceName' = interfaceStartRegex(trimmedText).name
  /\ i' = i + 1
  /\ UNCHANGED <<document, cancelled, codeLenses, scanPc>>
  /\ UNCHANGED cmdVars

\* the test of line 33 left out: a method-shaped line outside a block is anchored
ScanOutsideAnchored ==
  /\ InLoop
  /\ ~interfaceStartRegex(trimmedText).matched
  /\ ~inInterface
  /\ codeLenses' =
       IF methodMatch(trimmedText).matched /\ methodStart >= 0
       THEN Append(codeLenses, methodRange)
       ELSE codeLenses
  /\ i' = i + 1
  /\ UNCHANGED <<document, cancelled, inInterface, interfaceName,
                 bracketCount, scanPc>>
  /\ UNCHANGED cmdVars

\* line 33 false: a line outside any interface
ScanOutside ==
  /\ InLoop
  /\ ~interfaceStartRegex(trimmedText).matched
  /\ ~inInterface
  /\ i' = i + 1
  /\ UNCHANGED <<document, cancelled, inInterface, interfaceName,
                 bracketCount, codeLenses, scanPc>>
  /\ UNCHANGED cmdVars

\* the test for depth 0 made after the method of the line was anchored
ScanInterfaceEndAnchored ==
  /\ InLoop
  /\ ~interfaceStartRegex(trimmedText).matched
  /\ inInterface
  /\ countedBrackets = 0
  /\ codeLenses' =
       IF methodMatch(trimmedText).matched
       THEN Append(codeLenses,
                   [line |-> i,
                    start |-> IndexOf(lineText, methodMatch(trimmedText).name),
                    end |-> IndexOf(lineText, methodMatch(trimmedText).name)
                            + Len(methodMatch(trimmedText).name),
                    name |-> methodMatch(trimmedText).name])
       ELSE codeLenses
  /\ bracketCount' = 0
  /\ inInterface' = FALSE
  /\ interfaceName' = <<>>
  /\ i' = i + 1
  /\ UNCHANGED <<document, cancelled, scanPc>>
  /\ UNCHANGED cmdVars

\* lines 34-41: the braces of the line bring the count to 0
ScanInterfaceEnd ==
  /\ InLoop
  /\ ~interfaceStartRegex(trimmedText).matched
  /\ inInterface
  /\ countedBrackets = 0
  /\ bracketCount' = 0
  /\ inInterface' = FALSE
  /\ interfaceName' = <<>>
  /\ i' = i + 1
  /\ UNCHANGED <<document, cancelled, codeLenses, scanPc>>
  /\ UNCHANGED cmdVars

\* lines 43-45: a comment line of the block
ScanComment ==
  /\ InLoop
  /\ ~interfaceStartRegex(trimmedText).matched
  /\ inInterface
  /\ countedBrackets # 0
  /\ StartsWith(trimmedText, CommentMarker)
  /\ bracketCount' = countedBrackets
  /\ i' = i + 1
  /\ UNCHANGED <<document, cancelled, inInterface, interfaceName,
                 codeLenses, scanPc>>
  /\ UNCHANGED cmdVars

\* the cursor moved by one line whatever the look-ahead consumed
ScanNoMethodNoAdvance ==
  /\ AtCandidate
  /\ ~methodMatch(collected.methodText).matched
  /\ bracketCount' = countedBrackets
  /\ i' = i + 1
  /\ UNCHANGED <<document, cancelled, inInterface, interfaceName,
                 codeLenses, scanPc>>
  /\ UNCHANGED cmdVars

\* lines 47-58: the collected text holds no method name
ScanNoMethod ==
  /\ AtCandidate
  /\ ~methodMatch(collected.methodText).matched
  /\ bracketCount' = countedBrackets
  /\ i' = collected.i + 1
  /\ UNCHANGED <<document, cancelled, inInterface, interfaceName,
                 codeLenses, scanPc>>
  /\ UNCHANGED cmdVars

\* the outer cursor not moved past the lines the look-ahead consumed
ScanMethodNoAdvance ==
  /\ AtCandidate
  /\ methodMatch(collected.methodText).matched
  /\ ~PositionThrows(collected.i, methodStart)
  /\ codeLenses' = Append(codeLenses, methodRange)
  /\ bracketCount' = countedBrackets
  /\ i' = i + 1
  /\ UNCHANGED <<document, cancelled, inInterface, interfaceName, scanPc>>
  /\ UNCHANGED cmdVars

\* lines 47-74: a code lens is pushed for the method
ScanMethod ==
  /\ AtCandidate
  /\ methodMatch(collected.methodText).matched
  /\ ~PositionThrows(collected.i, methodStart)
  /\ codeLenses' = Append(codeLenses, methodRange)
  /\ bracketCount' = countedBrackets
  /\ i' = collected.i + 1
  /\ UNCHANGED <<document, cancelled, inInterface, interfaceName, scanPc>>
  /\ UNCHANGED cmdVars

\* lines 61-62: the Position constructor rejects the column and the scan throws
ScanThrow ==
  /\ AtCandidate
  /\ methodMatch(collected.methodText).matched
  /\ PositionThrows(collected.i, methodStart)
  /\ scanPc' = "threw"
  /\ bracketCount' = countedBrackets
  /\ i' = collected.i
  /\ UNCHANGED <<document, cancelled, inInterface, interfaceName, codeLenses>>
  /\ UNCHANGED cmdVars

\* line 78: the loop is over and the list is returned
ScanReturn ==
  /\ scanPc = "loop"
  /\ i >= lineCount
  /\ scanPc' = "returned"
  /\ UNCHANGED <<document, cancelled, i, inInterface, interfaceName,
                 bracketCount, codeLenses>>
  /\ UNCHANGED cmdVars

\* the host cancels the request: the token handed to provideCodeLenses (line
\* 13) is cancelled when the scan starts; the scan has no await, so the flag
\* cannot change between two of its lines
RequestCancellation ==
  /\ scanPc = "loop"
  /\ i = 0
  /\ ~cancelled
  /\ cancelled' = TRUE
  /\ UNCHANGED <<document, i, inInterface, interfaceName, bracketCount,
                 codeLenses, scanPc>>
  /\ UNCHANGED cmdVars

ScanNext ==
  \/ ScanInterfaceStart
  \/ ScanOutside
  \/ ScanInterfaceEnd
  \/ ScanComment
  \/ ScanNoMethod
  \/ ScanMethod
  \/ ScanThrow
  \/ ScanReturn
  \/ RequestCancellation

\* ------------------------------------------- the gotoImplementation command
\* the activations of the command that may be in progress at once
NumInvocations == 2
Invocations == 1..NumInvocations

\* the longest result of the implementation query
MaxImplementations == 4

Upper == <<"A", "B", "C", "D", "E", "F", "G", "H", "I", "J", "K", "L", "M", "N", "O", "P", "Q", "R", "S", "T", "U", "V", "W", "X", "Y", "Z">>
Lower == <<"a", "b", "c", "d", "e", "f", "g", "h", "i", "j", "k", "l", "m", "n", "o", "p", "q", "r", "s", "t", "u", "v", "w", "x", "y", "z">>

\* String.prototype.toLowerCase
ToLowerCase(s) ==
  [k \in 1..Len(s) |->
     IF \E u \in 1..Len(Upper) : Upper[u] = s[k]
     THEN Lower[CHOOSE u \in 1..Len(Upper) : Upper[u] = s[k]]
     ELSE s[k]]

\* String.prototype.includes
Includes(s, needle) == IndexOf(s, needle) >= 0

\* text.split("\n")[0]
FirstLine(s) == SubSeq(s, 1, FindChar(s, 1, "\n") - 1)

Mock == <<"m", "o", "c", "k">>

\* the files of the workspace that hold implementations, and their text
\* /a/svc.go
PathSvc == <<"/", "a", "/", "s", "v", "c", ".", "g", "o">>
\* /a/db.go
PathDb == <<"/", "a", "/", "d", "b", ".", "g", "o">>
\* /a/Mock_svc.go
PathMock == <<"/", "a", "/", "M", "o", "c", "k", "_", "s", "v", "c", ".", "g", "o">>
\* /mocks/db.go
PathMocks == <<"/", "m", "o", "c", "k", "s", "/", "d", "b", ".", "g", "o">>

TextSvc == <<"\n", " ", " ", "f", "u", "n", "c", " ", "F", "e", "t", "c", "h", "(", ")", " ", "{", "\n", "}", "\n">>
TextDb == <<"f", "u", "n", "c", " ", "P", "u", "t", "(", ")", " ", "{", "}">>
TextMock == <<" ", "f", "u", "n", "c", " ", "F", "e", "t", "c", "h", "(", ")", " ", "{", "\n", "\n", "}">>
TextMocks == <<"\n", "\n", "f", "u", "n", "c", " ", "P", "u", "t", "(", ")", " ", "{", "}", "\n">>

WorkspaceRoot == <<"/", "a">>

\* vscode.Location values the implementation query can return
Locations ==
  {[uri |-> PathSvc, range |-> 1], [uri |-> PathDb, range |-> 2],
   [uri |-> PathMock, range |-> 3], [uri |-> PathMocks, range |-> 4]}

\* doc.getText(loc.range) of the document opened for loc
getText(loc) ==
  CASE loc.uri = PathSvc -> TextSvc
    [] loc.uri = PathDb -> TextDb
    [] loc.uri = PathMock -> TextMock
    [] OTHER -> TextMocks

\* vscode.workspace.asRelativePath: the path below the workspace folder
asRelativePath(path) ==
  IF StartsWith(path, WorkspaceRoot \o <<"/">>)
  THEN SubSeq(path, Len(WorkspaceRoot) + 2, Len(path))
  ELSE path

\* the values the implementation query can resolve to: undefined or a list
QueryResults ==
  {[state |-> "fulfilled", defined |-> FALSE, value |-> <<>>]} \cup
  {[state |-> "fulfilled", defined |-> TRUE, value |-> r] :
     r \in SeqsUpTo(Locations, MaxImplementations)}

\* a promise not settled yet, and a promise that was rejected
Pending == [state |-> "pending", defined |-> FALSE, value |-> <<>>]
Rejected == [state |-> "rejected", defined |-> FALSE, value |-> <<>>]

\* the label prefixes of line 109 (their emoji left out)
LabelMock == <<"M", "O", "C", "K", " ", "-", " ">>
LabelImpl == <<"I", "M", "P", "L", " ", "-", " ">>

\* lines 102-116: the quick-pick item built for one location
Item(loc) ==
  LET preview == FirstLine(Trim(getText(loc)))
      isMock == Includes(ToLowerCase(loc.uri), Mock)
  IN [label |-> (IF isMock THEN LabelMock ELSE LabelImpl) \o preview,
      detail |-> asRelativePath(loc.uri),
      description |-> IF isMock THEN "Mock implementation"
                                 ELSE "Real implementation",
      location |-> loc,
      isMock |-> isMock]

\* Number(b) of a boolean
Number(b) == IF b THEN 1 ELSE 0

\* the comparator of line 120
compareItems(a, b) == Number(a.isMock) - Number(b.isMock)

\* x put before the elements that compare equal to it: an unstable sort
InsertBeforeEqual(sorted, x) ==
  LET after == {k \in 1..Len(sorted) : compareItems(sorted[k], x) >= 0}
      at == IF after = {} THEN Len(sorted) + 1
            ELSE CHOOSE k \in after : \A j \in after : k <= j
  IN SubSeq(sorted, 1, at - 1) \o <<x>> \o SubSeq(sorted, at, Len(sorted))

\* x put into the sorted list after every element that does not compare
\* greater than it
Insert(sorted, x) ==
  LET after == {k \in 1..Len(sorted) : compareItems(sorted[k], x) > 0}
      at == IF after = {} THEN Len(sorted) + 1
            ELSE CHOOSE k \in after : \A j \in after : k <= j
  IN SubSeq(sorted, 1, at - 1) \o <<x>> \o SubSeq(sorted, at, Len(sorted))

\* Array.prototype.sort with compareItems: a stable sort
RECURSIVE sortItems(_)
sortItems(list) ==
  IF list = <<>> THEN <<>>
  ELSE Insert(sortItems(SubSeq(list, 1, Len(list) - 1)), list[Len(list)])

\* lines 100-120: the items of the picker, mapped from the locations and sorted
items(locs) == sortItems([k \in 1..Len(locs) |-> Item(locs[k])])

\* the causes the host's calls can fail with
QueryError == <<"n", "o", " ", "p", "r", "o", "v", "i", "d", "e", "r">>
OpenError == <<"c", "a", "n", "n", "o", "t", " ", "o", "p", "e", "n">>
PickError == <<"p", "i", "c", "k", " ", "f", "a", "i", "l", "e", "d">>
ShowError == <<"c", "a", "n", "n", "o", "t", " ", "s", "h", "o", "w">>

\* the notice without the method name
InfoTextWithoutName(name) == <<"N", "o", " ", "i", "m", "p", "l", "e", "m", "e", "n", "t", "a", "t", "i", "o", "n", "s", " ", "f", "o", "u", "n", "d">>

InfoText(name) == <<"N", "o", " ", "i", "m", "p", "l", "e", "m", "e", "n", "t", "a", "t", "i", "o", "n", "s", " ", "f", "o", "u", "n", "d", " ", "f", "o", "r", " ">> \o name
ErrorText(error) == <<"E", "r", "r", "o", "r", " ", "w", "h", "i", "l", "e", " ", "f", "i", "n", "d", "i", "n", "g", " ", "i", "m", "p", "l", "e", "m", "e", "n", "t", "a", "t", "i", "o", "n", "s", ":", " ">> \o error
PlaceHolder(name) == <<"S", "e", "l", "e", "c", "t", " ", "i", "m", "p", "l", "e", "m", "e", "n", "t", "a", "t", "i", "o", "n", " ", "o", "f", " ">> \o name

NoArgs == [range |-> [line |-> 0, start |-> 0, end |-> 0], methodName |-> <<>>]

\* the arguments the code lens k carries (line 71)
LensArguments(k) ==
  [range |-> [line |-> codeLenses[k].line,
              start |-> codeLenses[k].start,
              end |-> codeLenses[k].end],
   methodName |-> codeLenses[k].name]

CmdIdle ==
  /\ cmdPc = [n \in Invocations |-> "idle"]
  /\ cmdArgs = [n \in Invocations |-> NoArgs]
  /\ implementations = [n \in Invocations |-> Pending]
  /\ opened = [n \in Invocations |-> <<>>]
  /\ selected = [n \in Invocations |-> Pending]
  /\ infoMessages = [n \in Invocations |-> <<>>]
  /\ errorMessages = [n \in Invocations |-> <<>>]
  /\ quickPicks = [n \in Invocations |-> <<>>]
  /\ shownDocuments = [n \in Invocations |-> <<>>]
  /\ navigation = [n \in Invocations |-> "none"]
  /\ handlerResult = [n \in Invocations |-> "pending"]

\* a catch block that reports the error to, and ends, every activation
CaughtAll(n, error) ==
  /\ errorMessages' =
       [m \in Invocations |-> Append(errorMessages[m], ErrorText(error))]
  /\ cmdPc' = [m \in Invocations |-> "done"]
  /\ handlerResult' = [m \in Invocations |-> "returned"]

\* lines 136-140: the catch block reports the error and the handler returns
Caught(n, error) ==
  /\ errorMessages' = [errorMessages EXCEPT ![n] = Append(@, ErrorText(error))]
  /\ cmdPc' = [cmdPc EXCEPT ![n] = "done"]
  /\ handlerResult' = [handlerResult EXCEPT ![n] = "returned"]

\* the user activates the marker of a code lens: the handler starts and
\* suspends at the implementation query (lines 93-97)
Invoke(n) ==
  /\ scanPc = "returned"
  /\ cmdPc[n] = "idle"
  /\ \E k \in 1..Len(codeLenses) :
        cmdArgs' = [cmdArgs EXCEPT ![n] = LensArguments(k)]
  /\ cmdPc' = [cmdPc EXCEPT ![n] = "query"]
  /\ UNCHANGED <<implementations, opened, selected, infoMessages,
                 errorMessages, quickPicks, shownDocuments, handlerResult>>
  /\ UNCHANGED <<navigation, scanVars>>

\* lines 99-118: the query resolves to locations; a document is requested
\* for each of them
QueryResolveSome(n) ==
  /\ cmdPc[n] = "query"
  /\ \E r \in QueryResults :
        /\ r.defined /\ Len(r.value) > 0
        /\ implementations' = [implementations EXCEPT ![n] = r]
        /\ opened' = [opened EXCEPT ![n] = [k \in 1..Len(r.value) |-> "pending"]]
  /\ cmdPc' = [cmdPc EXCEPT ![n] = "opening"]
  /\ UNCHANGED <<cmdArgs, selected, infoMessages, errorMessages, quickPicks,
                 shownDocuments, handlerResult>>
  /\ UNCHANGED <<navigation, scanVars>>

\* lines 99, 131-135: the query resolves to nothing; the notice is shown
QueryResolveNone(n) ==
  /\ cmdPc[n] = "query"
  /\ \E r \in QueryResults :
        /\ ~(r.defined /\ Len(r.value) > 0)
        /\ implementations' = [implementations EXCEPT ![n] = r]
  /\ infoMessages' =
       [infoMessages EXCEPT ![n] = Append(@, InfoText(cmdArgs[n].methodName))]
  /\ cmdPc' = [cmdPc EXCEPT ![n] = "done"]
  /\ handlerResult' = [handlerResult EXCEPT ![n] = "returned"]
  /\ UNCHANGED <<cmdArgs, opened, selected, errorMessages, quickPicks,
                 shownDocuments>>
  /\ UNCHANGED <<navigation, scanVars>>

\* lines 95-97, 136: the query fails
QueryReject(n) ==
  /\ cmdPc[n] = "query"
  /\ implementations' = [implementations EXCEPT ![n] = Rejected]
  /\ Caught(n, QueryError)
  /\ UNCHANGED <<cmdArgs, opened, selected, infoMessages,
                 quickPicks, shownDocuments>>
  /\ UNCHANGED <<navigation, scanVars>>

\* line 102: one document opens; when it is the last one, Promise.all
\* resolves, the items are sorted and the picker is presented (lines 120-124)
OpenResolve(n, k) ==
  /\ cmdPc[n] = "opening"
  /\ k \in DOMAIN opened[n]
  /\ opened[n][k] = "pending"
  /\ opened' = [opened EXCEPT ![n][k] = "opened"]
  /\ IF \A j \in DOMAIN opened[n] : j # k => opened[n][j] = "opened"
     THEN /\ quickPicks' =
               [quickPicks EXCEPT ![n] =
                  Append(@, [items |-> items(implementations[n].value),
                             placeHolder |-> PlaceHolder(cmdArgs[n].methodName)])]
          /\ cmdPc' = [cmdPc EXCEPT ![n] = "picker"]
     ELSE UNCHANGED <<quickPicks, cmdPc>>
  /\ UNCHANGED <<cmdArgs, implementations, selected, infoMessages,
                 errorMessages, shownDocuments, handlerResult>>
  /\ UNCHANGED <<navigation, scanVars>>

\* line 102, 136: a document fails to open; Promise.all rejects at once
OpenReject(n, k) ==
  /\ cmdPc[n] = "opening"
  /\ k \in DOMAIN opened[n]
  /\ opened[n][k] = "pending"
  /\ opened' = [opened EXCEPT ![n][k] = "failed"]
  /\ Caught(n, OpenError)
  /\ UNCHANGED <<cmdArgs, implementations, selected, infoMessages,
                 quickPicks, shownDocuments>>
  /\ UNCHANGED <<navigation, scanVars>>

\* line 102: a document requested before Promise.all rejected settles after
\* the handler has returned; nothing observes it
OpenSettleLate(n, k) ==
  /\ cmdPc[n] = "done"
  /\ k \in DOMAIN opened[n]
  /\ opened[n][k] = "pending"
  /\ \E outcome \in {"opened", "failed"} :
        opened' = [opened EXCEPT ![n][k] = outcome]
  /\ UNCHANGED <<cmdPc, cmdArgs, implementations, selected, infoMessages,
                 errorMessages, quickPicks, shownDocuments, handlerResult>>
  /\ UNCHANGED <<navigation, scanVars>>

\* navigation requested to the first item whatever the user picked
PickSelectFirst(n) ==
  /\ cmdPc[n] = "picker"
  /\ LET shown == quickPicks[n][Len(quickPicks[n])].items
     IN \E j \in 1..Len(shown) :
           /\ selected' = [selected EXCEPT ![n] =
                             [state |-> "fulfilled", defined |-> TRUE,
                              value |-> shown[j]]]
           /\ shownDocuments' =
                [shownDocuments EXCEPT ![n] = Append(@, shown[1].location)]
  /\ navigation' = [navigation EXCEPT ![n] = "pending"]
  /\ cmdPc' = [cmdPc EXCEPT ![n] = "navigating"]
  /\ UNCHANGED <<cmdArgs, implementations, opened, infoMessages,
                 errorMessages, quickPicks, handlerResult>>
  /\ UNCHANGED scanVars

\* lines 122-129: the user picks an item; navigation to it is requested
PickSelect(n) ==
  /\ cmdPc[n] = "picker"
  /\ LET shown == quickPicks[n][Len(quickPicks[n])].items
     IN \E j \in 1..Len(shown) :
           /\ selected' = [selected EXCEPT ![n] =
                             [state |-> "fulfilled", defined |-> TRUE,
                              value |-> shown[j]]]
           /\ shownDocuments' =
                [shownDocuments EXCEPT ![n] = Append(@, shown[j].location)]
  /\ navigation' = [navigation EXCEPT ![n] = "pending"]
  /\ cmdPc' = [cmdPc EXCEPT ![n] = "navigating"]
  /\ UNCHANGED <<cmdArgs, implementations, opened, infoMessages,
                 errorMessages, quickPicks, handlerResult>>
  /\ UNCHANGED scanVars

\* a dismissed picker reported with a notice
PickCancelNotified(n) ==
  /\ cmdPc[n] = "picker"
  /\ selected' = [selected EXCEPT ![n] =
                    [state |-> "fulfilled", defined |-> FALSE, value |-> <<>>]]
  /\ infoMessages' =
       [infoMessages EXCEPT ![n] = Append(@, InfoText(cmdArgs[n].methodName))]
  /\ cmdPc' = [cmdPc EXCEPT ![n] = "done"]
  /\ handlerResult' = [handlerResult EXCEPT ![n] = "returned"]
  /\ UNCHANGED <<cmdArgs, implementations, opened, errorMessages, quickPicks,
                 shownDocuments>>
  /\ UNCHANGED <<navigation, scanVars>>

\* lines 122-126: the user dismisses the picker; selected is undefined
PickCancel(n) ==
  /\ cmdPc[n] = "picker"
  /\ selected' = [selected EXCEPT ![n] =
                    [state |-> "fulfilled", defined |-> FALSE, value |-> <<>>]]
  /\ cmdPc' = [cmdPc EXCEPT ![n] = "done"]
  /\ handlerResult' = [handlerResult EXCEPT ![n] = "returned"]
  /\ UNCHANGED <<cmdArgs, implementations, opened, infoMessages,
                 errorMessages, quickPicks, shownDocuments>>
  /\ UNCHANGED <<navigation, scanVars>>

\* lines 122, 136: showQuickPick fails
PickReject(n) ==
  /\ cmdPc[n] = "picker"
  /\ selected' = [selected EXCEPT ![n] = Rejected]
  /\ Caught(n, PickError)
  /\ UNCHANGED <<cmdArgs, implementations, opened, infoMessages,
                 quickPicks, shownDocuments>>
  /\ UNCHANGED <<navigation, scanVars>>

\* lines 127-130: the document is shown and the handler returns
ShowResolve(n) ==
  /\ cmdPc[n] = "navigating"
  /\ navigation' = [navigation EXCEPT ![n] = "shown"]
  /\ cmdPc' = [cmdPc EXCEPT ![n] = "done"]
  /\ handlerResult' = [handlerResult EXCEPT ![n] = "returned"]
  /\ UNCHANGED <<cmdArgs, implementations, opened, selected, infoMessages,
                 errorMessages, quickPicks, shownDocuments>>
  /\ UNCHANGED scanVars

\* showTextDocument awaited outside the try block: its failure escapes
ShowRejectUncaught(n) ==
  /\ cmdPc[n] = "navigating"
  /\ navigation' = [navigation EXCEPT ![n] = "failed"]
  /\ cmdPc' = [cmdPc EXCEPT ![n] = "done"]
  /\ handlerResult' = [handlerResult EXCEPT ![n] = "rejected"]
  /\ UNCHANGED <<cmdArgs, implementations, opened, selected, infoMessages,
                 errorMessages, quickPicks, shownDocuments>>
  /\ UNCHANGED scanVars

\* lines 127, 136: showTextDocument fails
ShowReject(n) ==
  /\ cmdPc[n] = "navigating"
  /\ navigation' = [navigation EXCEPT ![n] = "failed"]
  /\ Caught(n, ShowError)
  /\ UNCHANGED <<cmdArgs, implementations, opened, selected, infoMessages,
                 quickPicks, shownDocuments>>
  /\ UNCHANGED scanVars

CmdStep(n) ==
  \/ Invoke(n)
  \/ QueryResolveSome(n)
  \/ QueryResolveNone(n)
  \/ QueryReject(n)
  \/ \E k \in 1..MaxImplementations : OpenResolve(n, k)
  \/ \E k \in 1..MaxImplementations : OpenReject(n, k)
  \/ \E k \in 1..MaxImplementations : OpenSettleLate(n, k)
  \/ PickSelect(n)
  \/ PickCancel(n)
  \/ PickReject(n)
  \/ ShowResolve(n)
  \/ ShowReject(n)

\* ----------------------------------------------------------- specifications
\* the scan of any document
Init == ScanInit /\ CmdIdle

\* the document whose markers the command is activated from
CmdDocument == <<LineDecl, LineFetch, LinePut, LineClose>>

\* the scan of CmdDocument has returned and no command is in progress
CmdInit ==
  /\ document = CmdDocument
  /\ cancelled = FALSE
  /\ i = 4
  /\ inInterface = FALSE
  /\ interfaceName = <<>>
  /\ bracketCount = 0
  /\ codeLenses = <<[line |-> 1, start |-> 1, end |-> 6, name |-> NameFetch],
                    [line |-> 2, start |-> 2, end |-> 5, name |-> NamePut]>>
  /\ scanPc = "returned"
  /\ CmdIdle

\* one activation of a marker
CmdNext == \E n \in {1} : CmdStep(n)

SpecCmd == CmdInit /\ [][CmdNext]_vars

SpecScan == Init /\ [][ScanNext]_vars

\* the scan of a document of BraceDocuments, its token never cancelled
BraceInit ==
  /\ document \in BraceDocuments
  /\ cancelled = FALSE
  /\ i = 0
  /\ inInterface = FALSE
  /\ interfaceName = <<>>
  /\ bracketCount = 0
  /\ codeLenses = <<>>
  /\ scanPc = "loop"
  /\ CmdIdle

BraceNext ==
  \/ ScanInterfaceStart
  \/ ScanOutside
  \/ ScanInterfaceEnd
  \/ ScanComment
  \/ ScanNoMethod
  \/ ScanMethod
  \/ ScanThrow
  \/ ScanReturn

SpecBraces == BraceInit /\ [][BraceNext]_vars

\* the locations the query resolves to when two activations are in progress
PairResults ==
  {<<[uri |-> PathSvc, range |-> 1]>>,
   <<[uri |-> PathMock, range |-> 3], [uri |-> PathDb, range |-> 2]>>}

\* lines 99-118 with a result of PairResults
PairQueryResolveSome(n) ==
  /\ QueryResolveSome(n)
  /\ implementations'[n].value \in PairResults

\* the steps of an activation after the handler has started
PairStep(n) ==
  \/ PairQueryResolveSome(n)
  \/ QueryResolveNone(n)
  \/ QueryReject(n)
  \/ \E k \in 1..MaxImplementations : OpenResolve(n, k)
  \/ \E k \in 1..MaxImplementations : OpenReject(n, k)
  \/ \E k \in 1..MaxImplementations : OpenSettleLate(n, k)
  \/ PickSelect(n)
  \/ PickCancel(n)
  \/ PickReject(n)
  \/ ShowResolve(n)
  \/ ShowReject(n)

\* two activations of the markers, one after the other or interleaved at
\* the awaits of the handler (lines 95, 100, 102, 122, 127)
PairNext == \E n \in {1, 2} : Invoke(n) \/ PairStep(n)

SpecPair == CmdInit /\ [][PairNext]_vars

\* the second marker is activated while the query of the first is pending
OverlapInvoke(n) ==
  /\ n = 2 => cmdPc[1] = "query"
  /\ Invoke(n)

OverlapNext == \E n \in {1, 2} : OverlapInvoke(n) \/ PairStep(n)

SpecOverlap == CmdInit /\ [][OverlapNext]_vars

\* ------------------------------------------------ properties of the scanner
\* the lines of doc other than positions lo..hi (1-based) declare no interface
NoDeclOutside(doc, lo, hi) ==
  \A k \in 1..Len(doc) :
     (k < lo \/ k > hi) => ~interfaceStartRegex(Trim(doc[k])).matched

\* the simple one-line methods of the documents, with the name each declares
\* and the column of the name's first character
SimpleMethods ==
  {[text |-> LineFetch, name |-> NameFetch, column |-> 1],
   [text |-> LinePut, name |-> NamePut, column |-> 2]}

SimpleMethodOf(line) == CHOOSE m \in SimpleMethods : m.text = line

\* doc holds, from 0-based line d on, a declaration line, n simple one-line
\* methods and the closing brace, and no other declaration
SimpleBlockAt(doc, d, n) ==
  /\ d + n + 2 <= Len(doc)
  /\ doc[d + 1] = LineDecl
  /\ \A k \in 1..n : doc[d + 1 + k] \in {m.text : m \in SimpleMethods}
  /\ doc[d + n + 2] = LineClose
  /\ NoDeclOutside(doc, d + 1, d + 1)

\* the anchors such a block must yield
SimpleBlockAnchors(doc, d, n) ==
  [k \in 1..n |->
     LET m == SimpleMethodOf(doc[d + 1 + k])
     IN [line |-> d + k,
         start |-> m.column,
         end |-> m.column + Len(m.name),
         name |-> m.name]]

FetcherDoc == <<LineDecl, LineFetch, LineClose>>

\* C1: a document holding an interface block of N simple one-line methods
\* yields exactly N anchors, in declaration order, the i-th on the line of the
\* i-th method and spanning the method name at its true column; the Fetcher
\* document yields the single anchor Fetch at line 1, column 1.
C1_SimpleMethodsAnchored ==
  /\ \A d \in 0..MaxLines, n \in 0..MaxLines :
        SimpleBlockAt(document, d, n) =>
          /\ scanPc # "threw"
          /\ scanPc = "returned" =>
               codeLenses = SimpleBlockAnchors(document, d, n)
  /\ (document = FetcherDoc /\ scanPc = "returned") =>
        codeLenses = <<[line |-> 1, start |-> 1, end |-> 6, name |-> NameFetch]>>

\* the scan of a block of two different methods has returned its two anchors
C1_Witness ==
  /\ scanPc = "returned"
  /\ document = <<LineDecl, LineFetch, LinePut, LineClose>>
  /\ Len(codeLenses) = 2
  /\ codeLenses[2].name = NamePut

\* doc holds, from 0-based line d on, a declaration line, a method whose
\* signature is wrapped over two lines, and the closing brace
WrappedBlockAt(doc, d) ==
  /\ d + 4 <= Len(doc)
  /\ doc[d + 1] = LineDecl
  /\ doc[d + 2] = LineWrapHead
  /\ doc[d + 3] = LineWrapTail
  /\ doc[d + 4] = LineClose
  /\ NoDeclOutside(doc, d + 1, d + 1)

\* C2: a method signature split over two lines yields exactly one anchor, and
\* the anchor's line is the line that holds the method name.
C2_WrappedAnchorOnNameLine ==
  \A d \in 0..MaxLines :
     (WrappedBlockAt(document, d) /\ scanPc = "returned") =>
        /\ Len(codeLenses) = 1
        /\ codeLenses[1].name = NameGet
        /\ codeLenses[1].line = d + 1

\* C3: the scan completes on every document without raising: no anchor
\* position is built with a negative line or column.
C3_ScanNeverThrows ==
  /\ scanPc # "threw"
  /\ \A k \in 1..Len(codeLenses) :
        codeLenses[k].line >= 0 /\ codeLenses[k].start >= 0

\* C7: a scan whose cancellation token is cancelled returns no anchors.
C7_CancelledScanReturnsNothing ==
  (cancelled /\ scanPc = "returned") => codeLenses = <<>>

\* C9: no anchor is emitted on a line whose trimmed text starts with the
\* line-comment marker, and no anchor's name is taken from such a line.
C9_CommentLineHasNoAnchor ==
  \A k \in 1..Len(codeLenses) :
     LET line == document[codeLenses[k].line + 1]
     IN ~StartsWith(Trim(line), CommentMarker)

NoDeclaration(doc) == NoDeclOutside(doc, 1, 0)

\* C10: an anchor is pushed only in inside-interface mode; a document none of
\* whose lines matches the declaration pattern yields no anchor and no error.
C10_NoDeclarationNoAnchor ==
  /\ codeLenses # <<>> => ~NoDeclaration(document)
  /\ NoDeclaration(document) =>
        /\ codeLenses = <<>>
        /\ ~inInterface
        /\ scanPc # "threw"

\* a document of method-shaped lines and braces, without declaration, scanned
C10_Witness ==
  /\ scanPc = "returned"
  /\ NoDeclaration(document)
  /\ \E a, b \in 1..Len(document) :
        document[a] = LineFetch /\ document[b] = LineClose

\* ------------------------------------------------ properties of the command
\* the query of invocation n resolved to no location or to no value
QueryFoundNothing(n) ==
  /\ implementations[n].state = "fulfilled"
  /\ ~(implementations[n].defined /\ Len(implementations[n].value) > 0)

\* C4: when the implementation query returns zero locations or no value for
\* method m, the invocation produces exactly one informational notice whose
\* text contains m, no error notice, no picker and no navigation request, and
\* terminates.
C4_NothingFoundOneNotice ==
  \A n \in Invocations :
     QueryFoundNothing(n) =>
        /\ Len(infoMessages[n]) = 1
        /\ Includes(infoMessages[n][1], cmdArgs[n].methodName)
        /\ cmdArgs[n].methodName \in {NameFetch, NamePut}
        /\ errorMessages[n] = <<>>
        /\ quickPicks[n] = <<>>
        /\ shownDocuments[n] = <<>>
        /\ navigation[n] = "none"
        /\ cmdPc[n] = "done"
        /\ handlerResult[n] = "returned"

\* the query for Fetch resolved to the empty list and the handler is over
C4_Witness ==
  /\ implementations[1].state = "fulfilled"
  /\ implementations[1].defined
  /\ implementations[1].value = <<>>
  /\ cmdArgs[1].methodName = NameFetch
  /\ cmdPc[1] = "done"

IsReal(item) == ~item.isMock
IsMock(item) == item.isMock

\* C5: the list handed to the picker is a permutation of the candidates of the
\* query result in which every real candidate precedes every mock candidate
\* and candidates of one class keep the order of the query result.
C5_PickerRealsFirstStable ==
  \A n \in Invocations :
     \A q \in 1..Len(quickPicks[n]) :
        LET locs == implementations[n].value
            candidates == [k \in 1..Len(locs) |-> Item(locs[k])]
        IN quickPicks[n][q].items =
             SelectSeq(candidates, IsReal) \o SelectSeq(candidates, IsMock)

\* the result [mock, real, mock, real] is presented as [real, real, mock, mock]
C5_Witness ==
  /\ implementations[1].value =
       <<[uri |-> PathMock, range |-> 3], [uri |-> PathSvc, range |-> 1],
         [uri |-> PathMocks, range |-> 4], [uri |-> PathDb, range |-> 2]>>
  /\ Len(quickPicks[1]) = 1
  /\ [k \in 1..4 |-> quickPicks[1][1].items[k].location.uri] =
       <<PathSvc, PathDb, PathMock, PathMocks>>

\* a call of invocation n into the host has failed
Failed(n) ==
  \/ implementations[n].state = "rejected"
  \/ \E k \in DOMAIN opened[n] : opened[n][k] = "failed"
  \/ selected[n].state = "rejected"
  \/ navigation[n] = "failed"

\* C6: a failure of the query, of opening a document, of the picker or of the
\* navigation ends the invocation with exactly one error notice and a handler
\* that completes normally; the failure never leaves the handler and no
\* navigation is requested after it.
C6_FailureCaughtOnce ==
  /\ [](\A n \in Invocations :
          /\ handlerResult[n] # "rejected"
          /\ Failed(n) =>
               /\ Len(errorMessages[n]) = 1
               /\ cmdPc[n] = "done"
               /\ handlerResult[n] = "returned")
  /\ [][\A n \in Invocations :
          Failed(n) => shownDocuments'[n] = shownDocuments[n]]_vars

\* the navigation failed after the picker returned a selection, and the
\* handler has returned
C6_Witness ==
  /\ navigation[1] = "failed"
  /\ selected[1].defined
  /\ handlerResult[1] = "returned"
  /\ Len(errorMessages[1]) = 1

\* C8: when the user cancels the picker, the invocation terminates silently:
\* no navigation request, no error notice, no informational notice.
C8_PickerCancelSilent ==
  \A n \in Invocations :
     (selected[n].state = "fulfilled" /\ ~selected[n].defined) =>
        /\ shownDocuments[n] = <<>>
        /\ navigation[n] = "none"
        /\ errorMessages[n] = <<>>
        /\ infoMessages[n] = <<>>
        /\ cmdPc[n] = "done"
        /\ handlerResult[n] = "returned"

\* a picker of several items was presented and dismissed
C8_Witness ==
  /\ Len(quickPicks[1]) = 1
  /\ Len(quickPicks[1][1].items) > 1
  /\ selected[1].state = "fulfilled"
  /\ ~selected[1].defined
  /\ cmdPc[1] = "done"

\* C11: the returned anchors are in document order: the lines of successive
\* anchors are strictly increasing, so no line carries two anchors, also after
\* look-ahead has advanced the cursor.
C11_AnchorLinesIncrease ==
  \A k \in 1..(Len(codeLenses) - 1) :
     codeLenses[k].line < codeLenses[k + 1].line

\* a wrapped method followed by a one-line method: both anchors returned
C11_Witness ==
  /\ scanPc = "returned"
  /\ document = <<LineDecl, LineWrapHead, LineWrapTail, LineFetch>>
  /\ Len(codeLenses) = 2
  /\ codeLenses[1].name = NameGet
  /\ codeLenses[2].name = NameFetch

\* doc holds, from 0-based line d on, a declaration line, a blank line, a
\* simple one-line method and the closing brace, and no other declaration
BlankBlockAt(doc, d) ==
  /\ d + 4 <= Len(doc)
  /\ doc[d + 1] = LineDecl
  /\ Trim(doc[d + 2]) = <<>>
  /\ doc[d + 3] \in {m.text : m \in SimpleMethods}
  /\ doc[d + 4] = LineClose
  /\ NoDeclOutside(doc, d + 1, d + 1)

\* C12: a blank line inside an interface block is skipped: it emits no anchor,
\* no following line is appended to it by look-ahead, and the method line
\* after it still yields its anchor at its own line and true column.
C12_BlankLineSkipped ==
  /\ (AtCandidate /\ trimmedText = <<>>) => collected.i = i
  /\ \A d \in 0..MaxLines :
        BlankBlockAt(document, d) =>
          /\ scanPc # "threw"
          /\ scanPc = "returned" =>
               LET m == SimpleMethodOf(document[d + 3])
               IN codeLenses = <<[line |-> d + 2,
                                 start |-> m.column,
                                 end |-> m.column + Len(m.name),
                                 name |-> m.name]>>

\* C13: at each line boundary of a scan the nesting depth is >= 0 and the
\* scanner is in inside-interface mode exactly when the depth is > 0.
C13_DepthNonNegative ==
  scanPc # "threw" =>
     /\ bracketCount >= 0
     /\ inInterface <=> bracketCount > 0

\* the number of "{" minus the number of "}" on the 0-based lines lo..hi
RECURSIVE BraceDelta(_, _)
BraceDelta(lo, hi) ==
  IF lo > hi THEN 0
  ELSE CountChar(lineAt(hi), "{") - CountChar(lineAt(hi), "}")
       + BraceDelta(lo, hi - 1)

\* the 0-based lines before the cursor that match the declaration pattern
DeclarationsPassed ==
  {d \in 0..(i - 1) : interfaceStartRegex(Trim(lineAt(d))).matched}

\* C14: while inside an interface, after the scanner has passed line k the
\* depth is 1 plus the "{" minus the "}" of all lines after the declaration
\* line up to and including k, the lines consumed by look-ahead included.
C14_DepthCountsEveryLine ==
  (scanPc = "loop" /\ inInterface) =>
     /\ DeclarationsPassed # {}
     /\ LET decl == CHOOSE d \in DeclarationsPassed :
                       \A e \in DeclarationsPassed : e <= d
        IN bracketCount = 1 + BraceDelta(decl + 1, i - 1)

\* the line has the form: optional white space, type, an identifier,
\* interface, and an opening brace that is its last non-blank character
DeclarationForm(line) ==
  LET t == Trim(line)
  IN /\ interfaceStartRegex(t).matched
     /\ FindChar(t, 1, "{") = Len(t)

\* C15: a line puts the scanner into inside-interface mode (depth 1, no
\* anchor, scanning continues at the next line) if and only if it has the
\* declaration form; a line with anything after the opening brace, such as
\* "type E interface {}", is not taken as a declaration.
C15_DeclarationNeedsBraceAtEnd ==
  [][(InLoop /\ ~inInterface /\ i' # i) =>
       /\ inInterface' <=> DeclarationForm(lineText)
       /\ inInterface' =>
            /\ bracketCount' = 1
            /\ codeLenses' = codeLenses
            /\ i' = i + 1]_vars

\* doc is a block closed at once by a line that brings the depth to 0,
\* followed by a second declaration and a simple one-line method
ReopenedBlock(doc) ==
  /\ Len(doc) = 4
  /\ doc[1] = LineDecl
  /\ doc[2] \in {LineClose, LineDelClose}
  /\ doc[3] = LineDecl
  /\ doc[4] \in {m.text : m \in SimpleMethods}

\* C16: when counting the braces of the current line brings the depth to 0,
\* the scanner leaves inside-interface mode without an anchor for that line,
\* also when the line holds a method signature; the lines after it yield no
\* anchor until one matches the declaration pattern, and that line opens a new
\* block whose methods are anchored.
C16_BlockClosesWithoutAnchor ==
  /\ [][(/\ InLoop
         /\ inInterface
         /\ ~interfaceStartRegex(trimmedText).matched
         /\ countedBrackets = 0) =>
           /\ ~inInterface'
           /\ codeLenses' = codeLenses
           /\ scanPc' = "loop"
           /\ i' = i + 1]_vars
  /\ [][(InLoop /\ ~inInterface /\ i' # i) =>
           /\ codeLenses' = codeLenses
           /\ inInterface' <=> interfaceStartRegex(trimmedText).matched]_vars
  /\ [](ReopenedBlock(document) =>
          /\ scanPc # "threw"
          /\ scanPc = "returned" =>
               LET m == SimpleMethodOf(document[4])
               IN codeLenses = <<[line |-> 3,
                                 start |-> m.column,
                                 end |-> m.column + Len(m.name),
                                 name |-> m.name]>>)

\* a block closed by a line that also holds a method signature, then a second
\* block: only the method of the second block is anchored
C16_Witness ==
  /\ scanPc = "returned"
  /\ document = <<LineDecl, LineDelClose, LineDecl, LineFetch>>
  /\ Len(codeLenses) = 1
  /\ codeLenses[1].name = NameFetch
  /\ codeLenses[1].line = 3

\* the last 0-based line the iteration at the cursor reads
LastLineRead == IF AtCandidate THEN collected.i ELSE i

\* C20: the scan of a finite document terminates: every iteration of the
\* outer loop moves the cursor forward, past the last line it read, so each
\* line is read at most once and at most lineCount iterations happen; the
\* look-ahead never moves the cursor beyond lineCount - 1; the anchors are at
\* most as many as the lines.
C20_ScanTerminates ==
  /\ [][(InLoop /\ scanPc' = "loop" /\ cancelled' = cancelled) =>
           /\ i' > i
           /\ i' = LastLineRead + 1]_vars
  /\ [](/\ i <= lineCount
         /\ (InLoop => LastLineRead <= lineCount - 1)
         /\ Len(codeLenses) <= lineCount)

\* a scan whose look-ahead ran to the last line of the document has returned
C20_Witness ==
  /\ scanPc = "returned"
  /\ document = <<LineDecl, LineFetch, LineWrapHead, LineWrapTail>>
  /\ i = lineCount
  /\ Len(codeLenses) = 2

\* the picker of invocation n was presented
PickerPresented(n) == quickPicks[n] # <<>>

\* navigation was requested by invocation n
NavigationRequested(n) == navigation[n] # "none"

\* C19: within one invocation the steps happen in order and at most once:
\* at most one picker and one navigation request; the picker is presented
\* only after the query returned at least one location and every candidate's
\* document was opened; navigation is requested only after the picker
\* returned a selection, and its target is the location of the selected
\* candidate, one of the locations the query returned.
C19_StepsInOrder ==
  \A n \in Invocations :
    /\ Len(quickPicks[n]) <= 1
    /\ Len(shownDocuments[n]) <= 1
    /\ NavigationRequested(n) <=> shownDocuments[n] # <<>>
    /\ PickerPresented(n) =>
          /\ implementations[n].state = "fulfilled"
          /\ implementations[n].defined
          /\ Len(implementations[n].value) > 0
          /\ DOMAIN opened[n] = 1..Len(implementations[n].value)
          /\ \A k \in DOMAIN opened[n] : opened[n][k] = "opened"
    /\ selected[n].state # "pending" => PickerPresented(n)
    /\ NavigationRequested(n) =>
          /\ PickerPresented(n)
          /\ selected[n].state = "fulfilled"
          /\ selected[n].defined
          /\ \E j \in 1..Len(quickPicks[n][1].items) :
                selected[n].value = quickPicks[n][1].items[j]
          /\ shownDocuments[n] = <<selected[n].value.location>>
          /\ \E k \in 1..Len(implementations[n].value) :
                implementations[n].value[k] = selected[n].value.location

\* three locations were found, all opened, and the document of a picked item
\* that is not the first of the picker was shown
C19_Witness ==
  /\ navigation[1] = "shown"
  /\ Len(implementations[1].value) = 3
  /\ \A k \in DOMAIN opened[1] : opened[1][k] = "opened"
  /\ shownDocuments[1] = <<selected[1].value.location>>
  /\ selected[1].value # quickPicks[1][1].items[1]

\* C17: a request triggered while the query of an earlier invocation is
\* pending cancels the earlier invocation: once the second request exists,
\* the first has presented no picker and requested no navigation, and the
\* pickers of the two are never pending together.
C17_EarlierRequestCancelled ==
  /\ cmdPc[2] # "idle" => (quickPicks[1] = <<>> /\ navigation[1] = "none")
  /\ ~(cmdPc[1] = "picker" /\ cmdPc[2] = "picker")

\* what invocation n has shown is determined by its own arguments, its own
\* query result and its own selection
OwnOutcome(n) ==
  /\ quickPicks[n] \in
       {<<>>, <<[items |-> items(implementations[n].value),
                placeHolder |-> PlaceHolder(cmdArgs[n].methodName)]>>}
  /\ infoMessages[n] =
       IF /\ implementations[n].state = "fulfilled"
          /\ ~(implementations[n].defined /\ Len(implementations[n].value) > 0)
       THEN <<InfoText(cmdArgs[n].methodName)>>
       ELSE <<>>
  /\ shownDocuments[n] =
       IF selected[n].state = "fulfilled" /\ selected[n].defined
       THEN <<selected[n].value.location>>
       ELSE <<>>
  /\ errorMessages[n] \in
       {<<>>, <<ErrorText(QueryError)>>, <<ErrorText(OpenError)>>,
        <<ErrorText(PickError)>>, <<ErrorText(ShowError)>>}
  /\ errorMessages[n] # <<>> <=> Failed(n)

\* invocation n can go on whatever the state of the others
NotBlocked(n) ==
  /\ cmdPc[n] = "idle" => ENABLED Invoke(n)
  /\ cmdPc[n] = "query" => ENABLED QueryResolveNone(n)
  /\ cmdPc[n] = "opening" =>
        ENABLED (\E k \in DOMAIN opened[n] : OpenReject(n, k))
  /\ cmdPc[n] = "picker" => ENABLED PickSelect(n)
  /\ cmdPc[n] = "navigating" => ENABLED ShowResolve(n)

\* the step leaves everything of invocation m as it was
Untouched(m) ==
  /\ cmdPc'[m] = cmdPc[m]
  /\ cmdArgs'[m] = cmdArgs[m]
  /\ implementations'[m] = implementations[m]
  /\ opened'[m] = opened[m]
  /\ selected'[m] = selected[m]
  /\ infoMessages'[m] = infoMessages[m]
  /\ errorMessages'[m] = errorMessages[m]
  /\ quickPicks'[m] = quickPicks[m]
  /\ shownDocuments'[m] = shownDocuments[m]
  /\ navigation'[m] = navigation[m]
  /\ handlerResult'[m] = handlerResult[m]

\* C18: of two invocations, run one after the other or interleaved at their
\* awaits, each one's notices, picker contents and navigation target depend
\* only on its own arguments, query result and selection; every step changes
\* one invocation only, so a failure in one never changes or fails the
\* other, and an invocation is never blocked by the other.
C18_InvocationsIndependent ==
  /\ [](\A n \in Invocations : OwnOutcome(n) /\ NotBlocked(n))
  /\ [][\E n \in Invocations :
          \A m \in Invocations \ {n} : Untouched(m)]_vars

\* the first invocation failed opening a document while another of its
\* documents is still being opened, and the second, activated from the other
\* marker, has shown the document picked among its two items
C18_Witness ==
  /\ errorMessages[1] = <<ErrorText(OpenError)>>
  /\ \E k \in DOMAIN opened[1] : opened[1][k] = "pending"
  /\ cmdArgs[1] # cmdArgs[2]
  /\ navigation[2] = "shown"
  /\ Len(quickPicks[2][1].items) = 2
  /\ errorMessages[2] = <<>>

====
